---- MODULE Spec2Model ----
(***************************************************************************)
(* Model of the Mission propagator of the smd astrodynamics simulator:     *)
(* NewMission, Propagate, Stop, SetState, Func and StopPropagation, the    *)
(* export consumer goroutine and the status-ticker goroutine.              *)
(*                                                                         *)
(* Quantities that are float64 in the program are integers on a grid here: *)
(* simulation time in seconds, angles in quarter turns (TwoPi == 4), the   *)
(* other orbital elements and the fuel mass in unspecified grid units.     *)
(***************************************************************************)
EXTENDS Integers, Sequences, FiniteSets, TLC

(* ------------------------------ constants ------------------------------ *)

\* stepSize, in seconds of simulation time.
StepSize == 10

\* 2*math.Pi, on the angle grid (one unit is a quarter turn).
TwoPi == 4

\* +Inf of float64 on the grid: sums saturate at Inf and -Inf.
Inf == 10000

\* Semi-major axis from which 2*a*a in da/dt exceeds the largest float64.
Huge == 100

(* ------------------------------- bounds -------------------------------- *)

\* Capacity of the export channel (1000 in the program, scaled down).
HistCap == 2

\* Integration steps an open-ended mission may take in the model.
MaxSteps == 2

\* Calls of StopPropagation made by the mission's user.
MaxStopCalls == 1

(* ------------------------------ data model ----------------------------- *)

\* Celestial bodies: Radius and SOI on a grid where Earth.Radius is 100, J2
\* by its sign.  The Sun is declared with SOI = -1 and J2 = 0.
Earth == [Name |-> "Earth", Radius |-> 100, SOI |-> 300, J2 |-> 1]

Sun == [Name |-> "Sun", Radius |-> 200, SOI |-> -1, J2 |-> 0]

\* Distances |R| that Orbit.GetRNorm can report after a step: below the
\* radius, on the edge of the 1% dead zone, free flight at nine tenths of
\* Earth's SOI, beyond Earth's SOI.
RNorms == {50, 101, 270, 400}

\* Waypoints a vehicle can be given: their kind, the thrust law their
\* guidance answers with while they are not reached, their one-shot action,
\* the duration of a Loiter and the body an OutwardSpiral leaves.  A Loiter
\* of one step that ends by loading cargo, an orbit target steered in the
\* plane that ends with a reference frame change, an orbit target steered
\* out of the plane, an outward spiral from Earth.
Loiter ==
    [kind |-> "Loiter", law |-> "coast", action |-> "ADDCARGO",
     duration |-> StepSize, body |-> Earth]

InPlaneTarget ==
    [kind |-> "OrbitTarget", law |-> "inplane", action |-> "REFFRAME",
     duration |-> 0, body |-> Earth]

OutPlaneTarget ==
    [kind |-> "OrbitTarget", law |-> "outplane", action |-> "nil",
     duration |-> 0, body |-> Earth]

OutwardSpiral ==
    [kind |-> "OutwardSpiral", law |-> "tangential", action |-> "REFFRAME",
     duration |-> 0, body |-> Earth]

\* Waypoint lists a vehicle can be built with.
WayPointLists ==
    { << >>, << Loiter >>, << InPlaneTarget >>, << OutPlaneTarget >>,
      << Loiter, InPlaneTarget >>, << OutwardSpiral >> }

\* Vehicles a mission can be given: every waypoint list with a thruster the
\* EPS can power, and an orbit target on a vehicle without one.
Vehicles ==
    { [WayPoints |-> w, thrusters |-> 1] : w \in WayPointLists }
      \cup { [WayPoints |-> << InPlaneTarget >>, thrusters |-> 0] }

\* End dates relative to StartDT = 0: before the start, equal to it, one
\* and two steps after it.
EndDTs == {-StepSize, 0, StepSize, 2 * StepSize}

\* The orbit handed to NewMission (built by NewOrbitFromOE: e >= 0, angles
\* in [0, 2*pi)); r is the distance |R| that GetRNorm derives from it.
InitOrbit ==
    [a |-> 10, e |-> 1, i |-> 1, Om |-> 0, om |-> 1, nu |-> 0, r |-> 101,
     Origin |-> Earth]

\* Fuel mass the vehicle starts with.
InitFuel == 3

VARIABLES
    StartDT, EndDT, CurrentDT,  \* Mission time fields
    includeJ2,                  \* Mission.includeJ2
    export,                     \* histChan # nil
    Orbit,                      \* *Mission.Orbit
    FuelMass,                   \* Vehicle.FuelMass
    WayPoints,                  \* Vehicle.WayPoints: the waypoints, in list order
    thrusters,                  \* thrusters of the vehicle that its EPS can power
    wpCleared,                  \* cleared flag of each waypoint (shared objects)
    wpSeen,                     \* time of the first query of each waypoint, -1 before it
    cursor,                     \* index of the current waypoint (1-based)
    FuncQ,                      \* Vehicle.FuncQ, the deferred actions
    done, collided,             \* Mission flags
    stopChan,                   \* number of messages buffered in stopChan (cap 1)
    histChan,                   \* snapshots buffered in the export channel
    histClosed,                 \* the export channel has been closed
    wg,                         \* the package-level WaitGroup counter
    pc,                         \* position of the thread running the Mission
    stage,                      \* RK4 stage (1..4) of the step in progress
    acc,                        \* weighted sum of the stage derivatives
    cpc,                        \* export consumer goroutine
    received,                   \* snapshots the consumer has read, in order
    tpc,                        \* status-ticker goroutine
    hist,                       \* history (ghost) record, see HistInit
    cl,                         \* an OptimalDeltaOrbit control law
    call,                       \* the calls of its Control made so far
    lambert,                    \* a call of Lambert
    angles                      \* a call of anglesEqual

vars == << StartDT, EndDT, CurrentDT, includeJ2, export, Orbit, FuelMass,
           WayPoints, thrusters, wpCleared, wpSeen, cursor, FuncQ, done, collided, stopChan,
           histChan, histClosed, wg, pc, stage, acc, cpc, received, tpc, hist,
           cl, call, lambert, angles >>

\* The variables of the Mission and of its goroutines.
mission == << StartDT, EndDT, CurrentDT, includeJ2, export, Orbit, FuelMass,
              WayPoints, thrusters, wpCleared, wpSeen, cursor, FuncQ, done, collided,
              stopChan, histChan, histClosed, wg, pc, stage, acc, cpc, received, tpc,
              hist >>

\* The variables of the functions a Mission does not call itself.
calc == << cl, call, lambert, angles >>

\* The zero state vector (a, e, i, Om, om, nu, fuel).
ZeroVec == [a |-> 0, e |-> 0, i |-> 0, Om |-> 0, om |-> 0, nu |-> 0, fuel |-> 0]

\* No sanity check on record: the distance seen, the central body it was
\* compared with, the collided flag before the check, and whether the check
\* transferred the orbit to the Sun.
NoChk == [r |-> -1, body |-> Earth, coll0 |-> FALSE, transfer |-> FALSE]

\* History variables (not program state): what was sent, how often the
\* channel was closed, what the polls returned.
HistInit ==
    [ sent        |-> << >>,    \* every snapshot sent, in send order
      closes      |-> 0,        \* close(histChan) executed so far
      badSend     |-> FALSE,    \* a send was attempted on a closed channel
      stopCalls   |-> 0,        \* StopPropagation calls made
      signalled   |-> FALSE,    \* a stop signal has been delivered
      sinceSignal |-> 0,        \* SetState applied since the signal
      nSetState   |-> 0,        \* SetState applied in total
      polls       |-> 0,        \* Stop polls made
      lastWhy     |-> "none",   \* return site of the last Stop poll
      lastRet     |-> FALSE,    \* result of the last Stop poll
      lastCleared |-> FALSE,    \* every waypoint was cleared at the last poll
      lateStep    |-> FALSE,    \* a step started with now > end > start
      lateLog     |-> FALSE,    \* LogStatus by the ticker after Propagate returned
      sentAtClose |-> 0,        \* snapshots sent when the channel was closed
      lastS       |-> ZeroVec,  \* integrator output of the last SetState
      rebuilt     |-> FALSE,    \* the last SetState rebuilt the orbit (transfer)
      lastLaw     |-> "none",   \* thrust law of the last stage of the step in progress
      stepThrust  |-> FALSE,    \* a stage of the step in progress asked for thrust
      queried     |-> {},       \* indices of the waypoints queried so far
      enqueued    |-> << >>,    \* every action appended to FuncQ, in order
      executed    |-> << >>,    \* every deferred action run, in order
      chk         |-> NoChk,    \* the sanity check of the SetState just applied
      nonFinite   |-> FALSE ]   \* the last derivative of Func had a NaN or Inf component

\* The state before NewMission for a mission about orbit o with an end date
\* of ends and the J2 switch in j2s, while the export consumers of 'others'
\* Mission instances created before it are running.
InitMission(o, ends, j2s, others) ==
    /\ StartDT = 0
    /\ EndDT \in ends
    /\ CurrentDT = 0
    /\ includeJ2 \in j2s
    /\ export \in BOOLEAN
    /\ Orbit = o
    /\ FuelMass = InitFuel
    /\ \E v \in Vehicles : WayPoints = v.WayPoints /\ thrusters = v.thrusters
    /\ wpCleared = [k \in DOMAIN WayPoints |-> FALSE]
    /\ wpSeen = [k \in DOMAIN WayPoints |-> -1]
    /\ cursor = 1
    /\ FuncQ = << >>
    /\ done = FALSE
    /\ collided = FALSE
    /\ stopChan = 0
    /\ histChan = << >>
    /\ histClosed = FALSE
    /\ wg \in others
    /\ pc = "new"
    /\ stage = 0
    /\ acc = ZeroVec
    /\ cpc = "none"
    /\ received = << >>
    /\ tpc = "none"
    /\ hist = HistInit

\* No control law, no Lambert problem and no angle comparison is in use.
NoCalc == cl = "none" /\ call = "none" /\ lambert = "none" /\ angles = "none"

Init == InitMission(InitOrbit, EndDTs, BOOLEAN, {0}) /\ NoCalc

(* ------------------------------- helpers ------------------------------- *)

\* math.Abs
Abs(x) == IF x < 0 THEN -x ELSE x

\* math.Mod(x, y) for y > 0: the remainder of the truncated division, which
\* has the sign of x.
GoMod(x, y) == IF x >= 0 THEN x % y ELSE -((-x) % y)

\* AstroState{dt, *Vehicle, *Orbit}: the time and the structs are copied;
\* the copied Spacecraft holds the same WayPoints slice as the vehicle, so
\* 'clearedAtSend' only records what the flags were when it was sent, and a
\* reader of the snapshot sees the waypoints themselves (ReadWayPoints).
AstroState(dt, fuel, o, flags) ==
    [dt |-> dt, fuel |-> fuel, orbit |-> o, clearedAtSend |-> flags]

\* What a reader finds behind snapshot.sc.WayPoints[k].Cleared().
ReadWayPoints(snap) == wpCleared

\* Every waypoint of the list reports Cleared().
AllCleared(flags) == \A k \in DOMAIN flags : flags[k]

(* ----------------------------- NewMission ------------------------------ *)

\* NewMission: builds the Mission; with an export configuration it makes
\* the buffered channel, starts the consumer under the WaitGroup and writes
\* the first data point.
NewMission ==
    /\ pc = "new"
    /\ pc' = "idle"
    /\ CurrentDT' = StartDT
    /\ IF export
         THEN /\ wg' = wg + 1
              /\ cpc' = "running"
              /\ histChan' = << AstroState(StartDT, FuelMass, Orbit, wpCleared) >>
              /\ hist' = [hist EXCEPT !.sent = Append(@, AstroState(StartDT, FuelMass, Orbit, wpCleared))]
         ELSE UNCHANGED << wg, cpc, histChan, hist >>
    /\ UNCHANGED calc
    /\ UNCHANGED << StartDT, EndDT, includeJ2, export, Orbit, FuelMass, WayPoints,
                    thrusters, wpCleared, wpSeen, cursor, FuncQ, done, collided, stopChan,
                    histClosed, stage, acc, received, tpc >>

(* ------------------------------ Propagate ------------------------------ *)

\* Propagate, up to the call of the integrator: first LogStatus, the ticker
\* goroutine is started.
PropagateStart ==
    /\ pc = "idle"
    /\ pc' = "poll"
    /\ tpc' = "waiting"
    /\ UNCHANGED calc
    /\ UNCHANGED << StartDT, EndDT, CurrentDT, includeJ2, export, Orbit, FuelMass,
                    WayPoints, thrusters, wpCleared, wpSeen, cursor, FuncQ, done, collided, stopChan,
                    histChan, histClosed, wg, stage, acc, cpc, received, hist >>

\* Faulty variant of StopResult: the stop channel is never looked at.
StopResultIgnoringSignal(hasSignal, cur, start, end, flags) ==
    LET now == cur + StepSize IN
    IF end < start
      THEN IF AllCleared(flags)
             THEN [ret |-> TRUE, why |-> "waypoints", now |-> now]
             ELSE [ret |-> FALSE, why |-> "none", now |-> now]
      ELSE IF now - end > 0
             THEN [ret |-> TRUE, why |-> "time", now |-> now]
             ELSE [ret |-> FALSE, why |-> "none", now |-> now]

\* Faulty variant of StopResult: the open-ended branch is missing, the end date is
\* compared in every mode.
StopResultNoOpenEnded(hasSignal, cur, start, end, flags) ==
    IF hasSignal
      THEN [ret |-> TRUE, why |-> "signal", now |-> cur]
      ELSE LET now == cur + StepSize IN
           IF now - end > 0
             THEN [ret |-> TRUE, why |-> "time", now |-> now]
             ELSE [ret |-> FALSE, why |-> "none", now |-> now]

\* Faulty variant of StopResult: the end date is tested one step late.
StopResultLate(hasSignal, cur, start, end, flags) ==
    IF hasSignal
      THEN [ret |-> TRUE, why |-> "signal", now |-> cur]
      ELSE LET now == cur + StepSize IN
           IF end < start
             THEN IF AllCleared(flags)
                    THEN [ret |-> TRUE, why |-> "waypoints", now |-> now]
                    ELSE [ret |-> FALSE, why |-> "none", now |-> now]
             ELSE IF now - end > StepSize
                    THEN [ret |-> TRUE, why |-> "time", now |-> now]
                    ELSE [ret |-> FALSE, why |-> "none", now |-> now]

\* Faulty variant of StopResult: the clock is advanced only when the run stops.
StopResultFrozenClock(hasSignal, cur, start, end, flags) ==
    IF hasSignal
      THEN [ret |-> TRUE, why |-> "signal", now |-> cur]
      ELSE LET now == cur + StepSize IN
           IF end < start
             THEN IF AllCleared(flags)
                    THEN [ret |-> TRUE, why |-> "waypoints", now |-> now]
                    ELSE [ret |-> FALSE, why |-> "none", now |-> cur]
             ELSE IF now - end > 0
                    THEN [ret |-> TRUE, why |-> "time", now |-> now]
                    ELSE [ret |-> FALSE, why |-> "none", now |-> cur]

\* Faulty variant of StopResult: a stop request advances the clock as well.
StopResultSignalAdvances(hasSignal, cur, start, end, flags) ==
    IF hasSignal
      THEN [ret |-> TRUE, why |-> "signal", now |-> cur + StepSize]
      ELSE LET now == cur + StepSize IN
           IF end < start
             THEN IF AllCleared(flags)
                    THEN [ret |-> TRUE, why |-> "waypoints", now |-> now]
                    ELSE [ret |-> FALSE, why |-> "none", now |-> now]
             ELSE IF now - end > 0
                    THEN [ret |-> TRUE, why |-> "time", now |-> now]
                    ELSE [ret |-> FALSE, why |-> "none", now |-> now]

\* The decision of Mission.Stop: the return value, the return site and the
\* new CurrentDT.  A pending stop request wins and leaves the clock alone.
StopResult(hasSignal, cur, start, end, flags) ==
    IF hasSignal
      THEN [ret |-> TRUE, why |-> "signal", now |-> cur]
      ELSE LET now == cur + StepSize IN
           IF end < start
             THEN IF AllCleared(flags)
                    THEN [ret |-> TRUE, why |-> "waypoints", now |-> now]
                    ELSE [ret |-> FALSE, why |-> "none", now |-> now]
             ELSE IF now - end > 0
                    THEN [ret |-> TRUE, why |-> "time", now |-> now]
                    ELSE [ret |-> FALSE, why |-> "none", now |-> now]

\* Faulty variant of CloseOnStop: the nil check is missing.
CloseOnStopUnchecked(ret, exp) == ret

\* Whether a poll closes the export channel: at every return of true, when
\* the channel is not nil.
CloseOnStop(ret, exp) == ret /\ exp

\* Mission.Stop, polled by the integrator before each step.
Stop ==
    /\ pc = "poll"
    /\ LET r == StopResult(stopChan > 0, CurrentDT, StartDT, EndDT, wpCleared) IN
         /\ stopChan' = IF r.why = "signal" THEN stopChan - 1 ELSE stopChan
         /\ CurrentDT' = r.now
         /\ histClosed' = IF CloseOnStop(r.ret, export) THEN TRUE ELSE histClosed
         /\ pc' = IF r.ret THEN "exit" ELSE "step"
         /\ hist' = [hist EXCEPT
                       !.polls = @ + 1,
                       !.lastWhy = r.why,
                       !.lastRet = r.ret,
                       !.lastCleared = AllCleared(wpCleared),
                       !.chk = NoChk,
                       !.closes = IF CloseOnStop(r.ret, export) THEN @ + 1 ELSE @,
                       !.sentAtClose = IF CloseOnStop(r.ret, export)
                                         THEN Len(hist.sent) ELSE @]
    /\ UNCHANGED calc
    /\ UNCHANGED << StartDT, EndDT, includeJ2, export, Orbit, FuelMass, WayPoints,
                    thrusters, wpCleared, wpSeen, cursor, FuncQ, done, collided, histChan, wg,
                    stage, acc, cpc, received, tpc >>

\* Mission.GetState: the integrator reads the state vector and starts a
\* step.  (The cap on the steps of an open-ended mission bounds the model.)
GetState ==
    /\ pc = "step"
    /\ EndDT < StartDT => hist.nSetState < MaxSteps
    /\ pc' = "func"
    /\ stage' = 1
    /\ acc' = ZeroVec
    /\ hist' = [hist EXCEPT !.lateStep = @ \/ (EndDT > StartDT /\ CurrentDT > EndDT)]
    /\ UNCHANGED calc
    /\ UNCHANGED << StartDT, EndDT, CurrentDT, includeJ2, export, Orbit, FuelMass,
                    WayPoints, thrusters, wpCleared, wpSeen, cursor, FuncQ, done, collided, stopChan,
                    histChan, histClosed, wg, cpc, received, tpc >>

(* -------------------------------- Func --------------------------------- *)

\* The time a Loiter counts from: the time of its first query.
FirstSeen(seen, now) == IF seen < 0 THEN now ELSE seen

\* Faulty variant of LoiterReached: the duration must be exceeded.
LoiterReachedLate(wp, seen, now) == FirstSeen(seen, now) + wp.duration < now

\* Loiter: reached when first-seen-time + duration <= now.
LoiterReached(wp, seen, now) == FirstSeen(seen, now) + wp.duration <= now

\* Faulty variant of SpiralReached: the whole SOI is taken as clearance.
SpiralReachedAtSoi(wp, r) == r >= wp.body.SOI

\* OutwardSpiral: reached when |R| >= 0.9 * SOI of the body it leaves.
SpiralReached(wp, r) == r * 10 >= 9 * wp.body.SOI

\* Waypoint.ThrustDirection, second result: whether the waypoint reports
\* itself reached at this query.  'conv' is what the control law of an orbit
\* target reports about its convergence.
Reached(wp, seen, now, r, conv) ==
    IF wp.kind = "Loiter" THEN LoiterReached(wp, seen, now)
    ELSE IF wp.kind = "OutwardSpiral" THEN SpiralReached(wp, r)
    ELSE conv

\* Waypoint.Action(): nil until the waypoint is reached.
WpAction(wp, reached) == IF reached THEN wp.action ELSE "nil"

\* The waypoint walk of Spacecraft.Accelerate from cursor c: every waypoint
\* that reports reached is passed; the result is the index of the first
\* waypoint not reached, or one past the end of the list.
RECURSIVE Walk(_, _, _, _, _, _)
Walk(c, wps, seen, now, r, conv) ==
    IF c > Len(wps) THEN c
    ELSE IF Reached(wps[c], seen[c], now, r, conv)
      THEN Walk(c + 1, wps, seen, now, r, conv)
      ELSE c

\* Faulty variant of ThrustLaw: the fuel mass is not looked at.
ThrustLawWithoutFuel(c, fuel, wps, power) ==
    IF c > Len(wps) \/ power = 0 THEN "coast" ELSE wps[c].law

\* Faulty variant of ThrustLaw: past the end of the list the law of the last
\* waypoint is kept.
ThrustLawKeptPastEnd(c, fuel, wps, power) ==
    IF fuel <= 0 \/ power = 0 \/ wps = << >> THEN "coast"
    ELSE IF c > Len(wps) THEN wps[Len(wps)].law
    ELSE wps[c].law

\* The thrust law the vehicle answers with when its cursor is at index c:
\* past the end of the list, without fuel, or without a thruster it can
\* power, it coasts; otherwise the law of the current waypoint applies.
ThrustLaw(c, fuel, wps, power) ==
    IF c > Len(wps) \/ fuel <= 0 \/ power = 0 THEN "coast" ELSE wps[c].law

\* Faulty variant of FDot: the mass flow has the wrong sign.
FDotRefuelling(law, j2) ==
    LET g == IF law = "inplane"
               THEN [ZeroVec EXCEPT !.a = -1, !.e = -2, !.om = -1, !.fuel = 1]
             ELSE IF law = "outplane"
               THEN [ZeroVec EXCEPT !.i = 1, !.Om = 1, !.om = -1, !.fuel = 1]
             ELSE IF law = "tangential"
               THEN [ZeroVec EXCEPT !.a = 1, !.e = 1, !.om = 1, !.fuel = 1]
             ELSE ZeroVec
        p == IF j2 THEN -1 ELSE 0
    IN  [g EXCEPT !.Om = GoMod(@ + p, TwoPi), !.om = GoMod(@ + p, TwoPi),
                  !.nu = GoMod(@ + 1, TwoPi)]

\* Faulty variant of FDot: the semi-major axis decays without thrust.
FDotDecaying(law, j2) ==
    LET g == IF law = "inplane"
               THEN [ZeroVec EXCEPT !.a = -1, !.e = -2, !.om = -1, !.fuel = -1]
             ELSE IF law = "outplane"
               THEN [ZeroVec EXCEPT !.i = 1, !.Om = 1, !.om = -1, !.fuel = -1]
             ELSE IF law = "tangential"
               THEN [ZeroVec EXCEPT !.a = 1, !.e = 1, !.om = 1, !.fuel = -1]
             ELSE [ZeroVec EXCEPT !.a = -1]
        p == IF j2 THEN -1 ELSE 0
    IN  [g EXCEPT !.Om = GoMod(@ + p, TwoPi), !.om = GoMod(@ + p, TwoPi),
                  !.nu = GoMod(@ + 1, TwoPi)]

\* Faulty variant of FDot: the J2 term is added to the rate of i as well.
FDotJ2OnInclination(law, j2) ==
    LET g == IF law = "inplane"
               THEN [ZeroVec EXCEPT !.a = -1, !.e = -2, !.om = -1, !.fuel = -1]
             ELSE IF law = "outplane"
               THEN [ZeroVec EXCEPT !.i = 1, !.Om = 1, !.om = -1, !.fuel = -1]
             ELSE IF law = "tangential"
               THEN [ZeroVec EXCEPT !.a = 1, !.e = 1, !.om = 1, !.fuel = -1]
             ELSE ZeroVec
        p == IF j2 THEN -1 ELSE 0
    IN  [g EXCEPT !.i = @ + p,
                  !.Om = GoMod(@ + p, TwoPi), !.om = GoMod(@ + p, TwoPi),
                  !.nu = GoMod(@ + 1, TwoPi)]

\* The derivative vector of Mission.Func on the grid, for thrust law 'law'
\* about an orbit whose J2 term is active or not: with no thrust only nu
\* advances; the J2 terms are added to the rates of Om and om only.
FDot(law, j2) ==
    LET g == IF law = "inplane"
               THEN [ZeroVec EXCEPT !.a = -1, !.e = -2, !.om = -1, !.fuel = -1]
             ELSE IF law = "outplane"
               THEN [ZeroVec EXCEPT !.i = 1, !.Om = 1, !.om = -1, !.fuel = -1]
             ELSE IF law = "tangential"
               THEN [ZeroVec EXCEPT !.a = 1, !.e = 1, !.om = 1, !.fuel = -1]
             ELSE ZeroVec
        p == IF j2 THEN -1 ELSE 0
    IN  [g EXCEPT !.Om = GoMod(@ + p, TwoPi), !.om = GoMod(@ + p, TwoPi),
                  !.nu = GoMod(@ + 1, TwoPi)]

\* The divisions of Func by h*e and h*sin(i) are by zero: the rates of Om,
\* om or nu are then NaN, or infinite and turned into NaN by math.Mod.
Singular(e, i) == e = 0 \/ GoMod(i, TwoPi) % 2 = 0

\* Weight of stage k in the Runge-Kutta sum.
RK4Weight(k) == IF k \in {2, 3} THEN 2 ELSE 1

\* A float64 result on the grid: beyond the largest float64 it is +Inf or
\* -Inf.
Sat(x) ==
    CHOOSE r \in {IF v >= Inf THEN Inf ELSE IF v <= -Inf THEN -Inf ELSE v :
                     v \in {x}} : TRUE

\* x is +Inf or -Inf.
IsInf(x) == x >= Inf \/ x <= -Inf

\* x + w * y on state vectors.
VAdd(x, w, y) ==
    [a |-> Sat(x.a + w * y.a), e |-> Sat(x.e + w * y.e), i |-> Sat(x.i + w * y.i),
     Om |-> Sat(x.Om + w * y.Om), om |-> Sat(x.om + w * y.om),
     nu |-> Sat(x.nu + w * y.nu), fuel |-> Sat(x.fuel + w * y.fuel)]

\* The rate of a as float64 computes it, (2*a*a/h) * (thrust terms): from
\* Huge on the product 2*a*a is +Inf, and so is the rate when the thrust
\* terms are not zero; the other rates do not hold the product.
Overflow(d, a) ==
    IF a >= Huge /\ ~IsInf(a) /\ d.a # 0
      THEN [d EXCEPT !.a = IF d.a > 0 THEN Inf ELSE -Inf]
      ELSE d

\* A component of the derivative is NaN at the osculating state f: the
\* divisions are singular, or a itself is infinite (Inf / Inf in da/dt).
HasNaN(f) == Singular(f.e, f.i) \/ IsInf(f.a)

\* Mission.GetState as a vector.
StateVec == [a |-> Orbit.a, e |-> Orbit.e, i |-> Orbit.i, Om |-> Orbit.Om,
             om |-> Orbit.om, nu |-> Orbit.nu, fuel |-> FuelMass]

\* The non-nil actions of the reached waypoints from..to-1, in list order.
RECURSIVE ActionsOf(_, _, _)
ActionsOf(wps, from, to) ==
    IF from >= to THEN << >>
    ELSE (IF WpAction(wps[from], TRUE) = "nil" THEN << >>
          ELSE << WpAction(wps[from], TRUE) >>)
         \o ActionsOf(wps, from + 1, to)

\* Mission.Func, one stage of a step: the vehicle is asked for its thrust
\* (which passes the waypoints that report reached, queues their actions and
\* moves the cursor), the derivative is computed, and a NaN component panics.
Func ==
    /\ pc = "func"
    /\ \E conv \in BOOLEAN :
         LET c2     == Walk(cursor, WayPoints, wpSeen, CurrentDT, Orbit.r, conv)
             law    == ThrustLaw(c2, FuelMass, WayPoints, thrusters)
             f      == VAdd(StateVec, 1, acc)
             j2     == includeJ2 /\ Orbit.Origin.J2 > 0
             fDot   == Overflow(FDot(law, j2), f.a)
             queued == ActionsOf(WayPoints, cursor, c2)
         IN  /\ wpCleared' = [k \in DOMAIN wpCleared |->
                                 wpCleared[k] \/ (cursor <= k /\ k < c2)]
             /\ wpSeen' = [k \in DOMAIN wpSeen |->
                              IF cursor <= k /\ k <= c2 /\ WayPoints[k].kind = "Loiter"
                                THEN FirstSeen(wpSeen[k], CurrentDT)
                                ELSE wpSeen[k]]
             /\ cursor' = c2
             /\ FuncQ' = FuncQ \o queued
             /\ hist' = [hist EXCEPT !.lastLaw = law,
                                     !.stepThrust = @ \/ law # "coast",
                                     !.queried = @ \cup
                                         {k \in DOMAIN WayPoints : cursor <= k /\ k <= c2},
                                     !.enqueued = @ \o queued,
                                     !.nonFinite = HasNaN(f) \/ IsInf(fDot.a)]
             /\ IF HasNaN(f)
                  THEN /\ pc' = "panicked"
                       /\ UNCHANGED << stage, acc >>
                  ELSE /\ acc' = VAdd(acc, RK4Weight(stage), fDot)
                       /\ stage' = IF stage = 4 THEN 0 ELSE stage + 1
                       /\ pc' = IF stage = 4 THEN "setstate" ELSE "func"
    /\ UNCHANGED calc
    /\ UNCHANGED << StartDT, EndDT, CurrentDT, includeJ2, export, Orbit, FuelMass,
                    WayPoints, thrusters, done, collided, stopChan, histChan,
                    histClosed, wg, cpc, received, tpc >>

(* ------------------------------ SetState ------------------------------- *)

\* Orbits about the Sun that a central-body transfer can produce (rebuilt
\* from R and V: e >= 0 and the angles in [0, 2*pi)).
HelioOrbits ==
    { [a |-> 20, e |-> 2, i |-> 3, Om |-> 0, om |-> 1, nu |-> 0, r |-> 400,
       Origin |-> Sun] }

\* Spacecraft.ToXCentric(Sun, dt, orbit): the orbit is rebuilt about the Sun.
ToXCentric(o, helio) == helio

\* Faulty variant of StoredOrbit: the eccentricity is stored with its sign.
StoredOrbitSigned(o, s) ==
    [o EXCEPT !.a = s.a,
              !.e = s.e,
              !.i = GoMod(s.i, TwoPi),
              !.Om = GoMod(s.Om, TwoPi),
              !.om = GoMod(s.om, TwoPi),
              !.nu = GoMod(s.nu, TwoPi)]

\* The orbital elements SetState stores for the integrator output s.
StoredOrbit(o, s) ==
    [o EXCEPT !.a = s.a,
              !.e = Abs(s.e),
              !.i = GoMod(s.i, TwoPi),
              !.Om = GoMod(s.Om, TwoPi),
              !.om = GoMod(s.om, TwoPi),
              !.nu = GoMod(s.nu, TwoPi)]

\* The queue SetState leaves behind: make([]func(), 5), five nil entries.
ClearedFuncQ == [k \in 1..5 |-> "nil"]

\* The effect of one deferred action on the orbit.
ApplyAction(f, o, helio) == IF f = "REFFRAME" THEN ToXCentric(o, helio) ELSE o

\* Faulty variant of RunFuncQ: the queue is run from its last entry to its
\* first.
RECURSIVE RunFuncQBackwards(_, _, _)
RunFuncQBackwards(o, q, helio) ==
    IF q = << >> THEN [orbit |-> o, ran |-> << >>]
    ELSE LET rest == RunFuncQBackwards(o, Tail(q), helio) IN
         IF Head(q) = "nil" THEN rest
         ELSE [orbit |-> ApplyAction(Head(q), rest.orbit, helio),
               ran   |-> Append(rest.ran, Head(q))]

\* The loop of SetState over the queue q: the nil entries are skipped, the
\* others are called in order; the orbit that results and the actions run.
RECURSIVE RunFuncQ(_, _, _)
RunFuncQ(o, q, helio) ==
    IF q = << >> THEN [orbit |-> o, ran |-> << >>]
    ELSE IF Head(q) = "nil" THEN RunFuncQ(o, Tail(q), helio)
    ELSE LET rest == RunFuncQ(ApplyAction(Head(q), o, helio), Tail(q), helio) IN
         [orbit |-> rest.orbit, ran |-> << Head(q) >> \o rest.ran]

\* Faulty variant of SanityCheck: the flag is cleared as soon as the
\* distance is above the radius, without the 1% dead zone.
SanityCheckNoDeadZone(o, r, coll, helio) ==
    IF ~coll /\ r < o.Origin.Radius
      THEN [collided |-> TRUE, orbit |-> o, transfer |-> FALSE]
    ELSE IF coll /\ r > o.Origin.Radius
      THEN [collided |-> FALSE, orbit |-> o, transfer |-> FALSE]
    ELSE IF r > o.Origin.SOI
      THEN [collided |-> coll, orbit |-> ToXCentric(o, helio), transfer |-> TRUE]
    ELSE [collided |-> coll, orbit |-> o, transfer |-> FALSE]

\* The sanity checks of SetState on an orbit at distance r: the collided
\* flag and the orbit that result, and whether the orbit was transferred.
SanityCheck(o, r, coll, helio) ==
    IF ~coll /\ r < o.Origin.Radius
      THEN [collided |-> TRUE, orbit |-> o, transfer |-> FALSE]
    ELSE IF coll /\ r * 100 > o.Origin.Radius * 101
      THEN [collided |-> FALSE, orbit |-> o, transfer |-> FALSE]
    ELSE IF r > o.Origin.SOI
      THEN [collided |-> coll, orbit |-> ToXCentric(o, helio), transfer |-> TRUE]
    ELSE [collided |-> coll, orbit |-> o, transfer |-> FALSE]

\* Mission.SetState: sends a snapshot (blocking while the channel is full),
\* stores the new elements, runs and clears the deferred actions, checks
\* collision and sphere of influence on the distance r that GetRNorm then
\* reports, stores the fuel mass.
SetState ==
    /\ pc = "setstate"
    /\ export => Len(histChan) < HistCap
    /\ LET s    == VAdd(StateVec, 1, acc)
           snap == AstroState(CurrentDT, FuelMass, Orbit, wpCleared)
       IN  \E helio \in HelioOrbits, r \in RNorms :
             LET o1  == StoredOrbit(Orbit, s)
                 run == RunFuncQ(o1, FuncQ, helio)
                 o2  == [run.orbit EXCEPT !.r = r]
                 chk == SanityCheck(o2, r, collided, helio)
             IN  /\ Orbit' = chk.orbit
                 /\ collided' = chk.collided
                 /\ FuelMass' = s.fuel
                 /\ FuncQ' = ClearedFuncQ
                 /\ histChan' = IF export THEN Append(histChan, snap) ELSE histChan
                 /\ hist' = [hist EXCEPT
                               !.sent = IF export THEN Append(@, snap) ELSE @,
                               !.badSend = @ \/ (export /\ histClosed),
                               !.nSetState = @ + 1,
                               !.sinceSignal = IF hist.signalled THEN @ + 1 ELSE @,
                               !.lastS = s,
                               !.rebuilt = chk.transfer
                                   \/ \E k \in DOMAIN FuncQ : FuncQ[k] = "REFFRAME",
                               !.lastLaw = "none",
                               !.stepThrust = FALSE,
                               !.executed = @ \o run.ran,
                               !.chk = [r |-> r, body |-> o2.Origin,
                                        coll0 |-> collided,
                                        transfer |-> chk.transfer]]
    /\ pc' = "poll"
    /\ acc' = ZeroVec
    /\ UNCHANGED calc
    /\ UNCHANGED << StartDT, EndDT, CurrentDT, includeJ2, export, WayPoints,
                    thrusters, wpCleared, wpSeen, cursor, done, stopChan,
                    histClosed, wg, stage, cpc, received, tpc >>

(* -------------------------- end of Propagate --------------------------- *)

\* Propagate after the integrator has returned: sets done, logs.
PropagateFinish ==
    /\ pc = "exit"
    /\ pc' = "wait"
    /\ done' = TRUE
    /\ UNCHANGED calc
    /\ UNCHANGED << StartDT, EndDT, CurrentDT, includeJ2, export, Orbit, FuelMass,
                    WayPoints, thrusters, wpCleared, wpSeen, cursor, FuncQ, collided, stopChan,
                    histChan, histClosed, wg, stage, acc, cpc, received, tpc, hist >>

\* Faulty variant of WgWait: Propagate returns without waiting for the WaitGroup.
WgWaitSkipped ==
    /\ pc = "wait"
    /\ pc' = "returned"
    /\ UNCHANGED calc
    /\ UNCHANGED << StartDT, EndDT, CurrentDT, includeJ2, export, Orbit, FuelMass,
                    WayPoints, thrusters, wpCleared, wpSeen, cursor, FuncQ, done, collided, stopChan,
                    histChan, histClosed, wg, stage, acc, cpc, received, tpc, hist >>

\* wg.Wait() at the end of Propagate, then the return.
WgWait ==
    /\ pc = "wait"
    /\ wg = 0
    /\ pc' = "returned"
    /\ UNCHANGED calc
    /\ UNCHANGED << StartDT, EndDT, CurrentDT, includeJ2, export, Orbit, FuelMass,
                    WayPoints, thrusters, wpCleared, wpSeen, cursor, FuncQ, done, collided, stopChan,
                    histChan, histClosed, wg, stage, acc, cpc, received, tpc, hist >>

(* --------------------------- StopPropagation --------------------------- *)

\* Mission.StopPropagation, called by the user of the mission: a send on
\* the one-slot stopChan, which blocks while the slot is taken.
StopPropagation ==
    /\ pc \notin {"new", "panicked"}
    /\ hist.stopCalls < MaxStopCalls
    /\ stopChan < 1
    /\ stopChan' = stopChan + 1
    /\ hist' = [hist EXCEPT !.stopCalls = @ + 1,
                            !.signalled = TRUE,
                            !.sinceSignal = 0]
    /\ UNCHANGED calc
    /\ UNCHANGED << StartDT, EndDT, CurrentDT, includeJ2, export, Orbit, FuelMass,
                    WayPoints, thrusters, wpCleared, wpSeen, cursor, FuncQ, done, collided,
                    histChan, histClosed, wg, pc, stage, acc, cpc, received, tpc >>

(* --------------------------- export consumer --------------------------- *)

\* The consumer goroutine (StreamStates) takes the next snapshot.
ConsumerRecv ==
    /\ cpc = "running"
    /\ pc # "panicked"
    /\ histChan # << >>
    /\ received' = Append(received, Head(histChan))
    /\ histChan' = Tail(histChan)
    /\ UNCHANGED calc
    /\ UNCHANGED << StartDT, EndDT, CurrentDT, includeJ2, export, Orbit, FuelMass,
                    WayPoints, thrusters, wpCleared, wpSeen, cursor, FuncQ, done, collided, stopChan,
                    histClosed, wg, pc, stage, acc, cpc, tpc, hist >>

\* The consumer finds the channel closed and drained: StreamStates returns
\* and the deferred wg.Done() runs.
ConsumerExit ==
    /\ cpc = "running"
    /\ pc # "panicked"
    /\ histChan = << >>
    /\ histClosed
    /\ cpc' = "done"
    /\ wg' = wg - 1
    /\ UNCHANGED calc
    /\ UNCHANGED << StartDT, EndDT, CurrentDT, includeJ2, export, Orbit, FuelMass,
                    WayPoints, thrusters, wpCleared, wpSeen, cursor, FuncQ, done, collided, stopChan,
                    histChan, histClosed, pc, stage, acc, received, tpc, hist >>

(* ---------------------------- status ticker ---------------------------- *)

\* A tick arrives: the goroutine reads a.done, without synchronisation, so
\* once done is set it may read either value.
TickerTick ==
    /\ tpc = "waiting"
    /\ pc # "panicked"
    /\ \E seen \in (IF done THEN BOOLEAN ELSE {FALSE}) :
         tpc' = IF seen THEN "exited" ELSE "logging"
    /\ UNCHANGED calc
    /\ UNCHANGED << StartDT, EndDT, CurrentDT, includeJ2, export, Orbit, FuelMass,
                    WayPoints, thrusters, wpCleared, wpSeen, cursor, FuncQ, done, collided, stopChan,
                    histChan, histClosed, wg, pc, stage, acc, cpc, received, hist >>

\* The goroutine calls LogStatus and waits for the next tick.
TickerLog ==
    /\ tpc = "logging"
    /\ pc # "panicked"
    /\ tpc' = "waiting"
    /\ hist' = [hist EXCEPT !.lateLog = @ \/ pc = "returned"]
    /\ UNCHANGED calc
    /\ UNCHANGED << StartDT, EndDT, CurrentDT, includeJ2, export, Orbit, FuelMass,
                    WayPoints, thrusters, wpCleared, wpSeen, cursor, FuncQ, done, collided, stopChan,
                    histChan, histClosed, wg, pc, stage, acc, cpc, received >>

(* -------------------------- OptimalDeltaOrbit --------------------------- *)

\* The tolerances distanceε, eccentricityε and angleε, in grid units.
distanceEps == 1

eccentricityEps == 1

angleEps == 1

\* Calls of Control made on one control law.
MaxCalls == 3

\* The laws OptiΔaCL, OptiΔeCL, OptiΔiCL, OptiΔΩCL, OptiΔωCL that
\* NewOptimalΔOrbit takes when it is given none.
DefaultLaws == << "a", "e", "i", "Om", "om" >>

\* Law lists a caller can give: none, one law, two laws, the five laws in the
\* default order, the five laws in another order, and five entries that
\* name four laws.
LawLists ==
    { << >>, << "a" >>, << "a", "i" >>, DefaultLaws,
      << "om", "Om", "i", "e", "a" >>, << "a", "a", "e", "i", "Om" >> }

\* The ways of summing the laws that Control supports.
Methods == {"Ruggerio", "Naasz"}

\* The target orbit of the law, and the osculating orbits Control is called
\* with: each targeted element on the target, at the tolerance from it, or
\* further away.
TargetOrbit == [a |-> 13, e |-> 1, i |-> 2, Om |-> 0, om |-> 2]

Osculating ==
    { [a |-> x, e |-> y, i |-> z, Om |-> 0, om |-> w] :
        x \in {10, 12, 13}, y \in {1, 3}, z \in {0, 2}, w \in {0, 2} }

\* The zero value of an Orbit struct.
ZeroOrbit == [a |-> 0, e |-> 0, i |-> 0, Om |-> 0, om |-> 0]

\* floats.EqualWithinAbs
EqualWithinAbs(x, y, tol) == Abs(x - y) <= tol

\* The element of orbit o that law l steers, and the tolerance used for it.
Elem(o, l) ==
    IF l = "a" THEN o.a ELSE IF l = "e" THEN o.e ELSE IF l = "i" THEN o.i
    ELSE IF l = "Om" THEN o.Om ELSE o.om

Tol(l) ==
    IF l = "a" THEN distanceEps ELSE IF l = "e" THEN eccentricityEps ELSE angleEps

\* NewOptimalΔOrbit(target, method, laws...)
NewOptimalDeltaOrbit(target, method, laws) ==
    [Initd |-> FALSE, cleared |-> FALSE, oInit |-> ZeroOrbit, oTgt |-> target,
     controls |-> IF Len(laws) = 0 THEN DefaultLaws ELSE laws,
     method |-> method]

\* The first call of Control on five controls: the list is rebuilt from the
\* elements of the initial orbit that are not within tolerance of the target.
Rebuilt(init, tgt) ==
    LET Off(l) == ~EqualWithinAbs(Elem(init, l), Elem(tgt, l), Tol(l))
    IN  SelectSeq(DefaultLaws, Off)

\* The factor of the Ruggerio sum, times six (the grid has no fractions;
\* |target - init| is 2 or 3 when the factor is not zero).
Factor(oscul, init, target, tol) ==
    IF EqualWithinAbs(init, target, tol) \/ EqualWithinAbs(oscul, target, tol)
      THEN 0
      ELSE (6 * (target - oscul)) \div Abs(target - init)

\* The error of the Naasz sum: the difference to the target, zero when it is
\* below the tolerance.
DeltaO(oscul, target, tol) ==
    IF Abs(oscul - target) < tol THEN 0 ELSE oscul - target

\* sign
Sign(x) == IF x < 0 THEN -1 ELSE 1

\* The gain of the Naasz sum by its zeros: the gain of Ω has the factor
\* sin(i), the gain of ω the factor e; the others are positive.
Gain(l, o) ==
    IF l = "Om" THEN (IF o.i = 0 THEN 0 ELSE 1)
    ELSE IF l = "om" THEN (IF o.e = 0 THEN 0 ELSE 1)
    ELSE 1

\* The factor of law l in the sum, for either method (the Naasz factor
\* 0.5 * weight * δO^2 is doubled), and whether the law keeps the control
\* from being cleared.
LawFactor(c, l, o) ==
    IF c.method = "Ruggerio"
      THEN Factor(Elem(o, l), Elem(c.oInit, l), Elem(c.oTgt, l), Tol(l))
      ELSE LET d == DeltaO(Elem(o, l), Elem(c.oTgt, l), Tol(l))
           IN  Sign(-d) * Gain(l, o) * d * d

LawActive(c, l, o) ==
    IF c.method = "Ruggerio"
      THEN LawFactor(c, l, o) # 0
      ELSE DeltaO(Elem(o, l), Elem(c.oTgt, l), Tol(l)) # 0

\* The direction of OptimalThrust for law l in the frame (radial, along the
\* track, across the track): a along the track, e and ω radial, i and Ω
\* across the track.
Direction(l) ==
    IF l = "a" THEN << 0, 1, 0 >>
    ELSE IF l \in {"e", "om"} THEN << 1, 0, 0 >>
    ELSE << 0, 0, 1 >>

\* unit(v) by the signs of its components; the zero vector stays zero.
Unit(v) == [k \in 1..3 |-> IF v[k] > 0 THEN 1 ELSE IF v[k] < 0 THEN -1 ELSE 0]

\* Faulty variant of Combine: the cleared flag follows the last law of the list only.
RECURSIVE CombineLastLaw(_, _, _, _)
CombineLastLaw(c, cs, o, sum) ==
    IF cs = << >> THEN sum
    ELSE LET l == Head(cs)
             f == LawFactor(c, l, o)
         IN  CombineLastLaw(c, Tail(cs), o,
                 [thrust  |-> IF LawActive(c, l, o)
                                THEN [k \in 1..3 |-> sum.thrust[k] + f * Direction(l)[k]]
                                ELSE sum.thrust,
                  cleared |-> ~LawActive(c, l, o)])

\* The loop of Control over the controls cs: the thrust summed so far and
\* the cleared flag, which a law with a factor other than zero resets.
RECURSIVE Combine(_, _, _, _)
Combine(c, cs, o, sum) ==
    IF cs = << >> THEN sum
    ELSE LET l == Head(cs)
             f == LawFactor(c, l, o)
         IN  Combine(c, Tail(cs), o,
                 IF LawActive(c, l, o)
                   THEN [thrust  |-> [k \in 1..3 |-> sum.thrust[k] + f * Direction(l)[k]],
                         cleared |-> FALSE]
                   ELSE sum)

\* OptimalΔOrbit.Control(o): the control law after the call and the thrust
\* returned.
Control(c, o) ==
    IF ~c.Initd
      THEN [cl |-> [c EXCEPT !.Initd = TRUE,
                             !.oInit = o,
                             !.controls = IF Len(c.controls) = 5
                                            THEN Rebuilt(o, c.oTgt) ELSE @],
            thrust |-> << 0, 0, 0 >>]
      ELSE LET sum == Combine(c, c.controls, o,
                              [thrust |-> << 0, 0, 0 >>, cleared |-> TRUE])
           IN  [cl |-> [c EXCEPT !.cleared = sum.cleared],
                thrust |-> Unit(sum.thrust)]

\* OrbitTarget.ThrustDirection(o, dt): the waypoint asks its control law
\* for the thrust and reports cleared when the law does.
ThrustDirection ==
    /\ call.n < MaxCalls
    /\ \E o \in Osculating :
         LET r == Control(cl, o) IN
           /\ cl' = r.cl
           /\ call' = [call EXCEPT !.n = @ + 1,
                                   !.o = o,
                                   !.first = IF call.n = 0 THEN o ELSE @,
                                   !.thrust = r.thrust,
                                   !.wpCleared = r.cl.cleared]
    /\ UNCHANGED << mission, lambert, angles >>

(* ------------------------------- Lambert -------------------------------- *)

\* The cap on the iterations on ψ (1000 in the program, scaled down).
MaxIter == 3

\* The bracket of ψ for the types Auto, T1 and T2, [-4π, (2π)^2], on a grid.
PsiLow == -4

PsiUp == 16

\* The convergence tolerance on the time of flight (1e-6 s), in grid units.
LambertEps == 1

\* The transfer types in scope.
TransferTypes == {"TTypeAuto", "TType1", "TType2"}

\* The angle between the endpoints: zero, π, or neither.
DeltaNus == {"zero", "pi", "other"}

\* Times of flight asked for: reached by ψ at the middle of the bracket,
\* after one, two and three bisections, between two values of ψ, above the
\* bracket, and only at a ψ where y(ψ) is below zero.
TimesOfFlight == {38, 53, 59, 62, 60, 90, 11}

\* The time of flight that ψ gives, increasing in ψ.
TimeOfFlight(psi) == 3 * psi + 20

\* y(ψ) is below zero under ψ = -2; such a ψ is moved upward until y(ψ) is
\* not below zero.
YNegative(psi) == psi < -2

RECURSIVE AdjustPsi(_)
AdjustPsi(psi) == IF YNegative(psi) THEN AdjustPsi(psi + 1) ELSE psi

\* Lambert before its first statement, for inputs of the given dimensions.
LambertCall(dimI, dimF, dnu, ttype, dt) ==
    [dimI |-> dimI, dimF |-> dimF, dnu |-> dnu, ttype |-> ttype, dt |-> dt,
     at |-> "called", iter |-> 0, low |-> PsiLow, up |-> PsiUp,
     psi |-> (PsiLow + PsiUp) \div 2, err |-> "pending", V |-> "none"]

\* The checks of Lambert on its inputs: the error they raise, "nil" if none.
InputError(l) ==
    IF l.dimI # 3 \/ l.dimF # 3 THEN "DimensionMismatch"
    ELSE IF l.dnu \in {"zero", "pi"} THEN "Degenerate"
    ELSE "nil"

\* Faulty variant of Converged: the estimate only has to be within three grid units.
ConvergedLoosely(l) == Abs(TimeOfFlight(l.psi) - l.dt) < 3 * LambertEps

\* The convergence criterion at the current ψ.
Converged(l) == Abs(TimeOfFlight(l.psi) - l.dt) < LambertEps

\* Lambert checks its inputs and returns an error or enters the iteration.
LambertCheck ==
    /\ lambert.at = "called"
    /\ lambert' = IF InputError(lambert) # "nil"
                    THEN [lambert EXCEPT !.at = "returned", !.err = InputError(lambert)]
                    ELSE [lambert EXCEPT !.at = "iterating"]
    /\ UNCHANGED << mission, cl, call, angles >>

\* One pass of the loop on ψ: ψ is moved upward while y(ψ) is below zero;
\* on convergence the velocities are computed and returned, at the cap
\* NonConvergent is returned, otherwise the bracket is halved about ψ.
LambertIterate ==
    /\ lambert.at = "iterating"
    /\ LET l == [lambert EXCEPT !.psi = AdjustPsi(@)] IN
         lambert' =
           IF Converged(l)
             THEN [l EXCEPT !.at = "returned", !.err = "nil", !.V = "computed"]
           ELSE IF l.iter >= MaxIter
             THEN [l EXCEPT !.at = "returned", !.err = "NonConvergent"]
           ELSE LET up  == TimeOfFlight(l.psi) < l.dt
                    lo2 == IF up THEN l.psi ELSE l.low
                    hi2 == IF up THEN l.up ELSE l.psi
                IN  [l EXCEPT !.iter = @ + 1, !.low = lo2, !.up = hi2,
                              !.psi = (lo2 + hi2) \div 2]
    /\ UNCHANGED << mission, cl, call, angles >>

(* ------------------------------ anglesEqual ----------------------------- *)

\* anglesEqual is given angles in half units of the angle grid, so that two
\* angles can differ by less than angleε without being the same.
HalfUnits == 2

\* The angles compared: from one turn below zero to two turns.
AngleInputs == (-(HalfUnits * TwoPi)) .. (2 * HalfUnits * TwoPi)

\* anglesEqual(a, b), by its boolean result.
anglesEqual(a, b) ==
    LET diff == GoMod(Abs(a - b), HalfUnits * TwoPi)
    IN  diff < HalfUnits * angleEps

\* A caller compares two angles.
AnglesEqualCall ==
    /\ angles.at = "called"
    /\ angles' = [angles EXCEPT !.at = "returned",
                                !.ret = anglesEqual(angles.a, angles.b)]
    /\ UNCHANGED << mission, cl, call, lambert >>

(* ---------------------------- specification ---------------------------- *)

Next ==
    \/ NewMission
    \/ PropagateStart
    \/ Stop
    \/ GetState
    \/ Func
    \/ SetState
    \/ PropagateFinish
    \/ WgWait
    \/ StopPropagation
    \/ ConsumerRecv
    \/ ConsumerExit
    \/ TickerTick
    \/ TickerLog

Spec == Init /\ [][Next]_vars

\* The missions of Init without the J2 terms, which change no control flow.
InitFair == Init /\ ~includeJ2

\* The Go scheduler runs every goroutine that can run: the thread inside
\* Propagate and the export consumer take their next step when it stays
\* possible.  The ticker and the callers of StopPropagation are not forced.
Scheduling ==
    /\ WF_vars(Stop)
    /\ WF_vars(GetState)
    /\ WF_vars(Func)
    /\ WF_vars(SetState)
    /\ WF_vars(PropagateFinish)
    /\ WF_vars(WgWait)
    /\ WF_vars(ConsumerRecv)
    /\ WF_vars(ConsumerExit)

FairSpec == InitFair /\ [][Next]_vars /\ Scheduling

\* A mission about an orbit whose semi-major axis is five grid units below
\* Huge, time-bounded to two steps, without the J2 terms.
InitOverflow ==
    InitMission([InitOrbit EXCEPT !.a = Huge - 5], {2 * StepSize}, {FALSE}, {0}) /\ NoCalc

OverflowSpec == InitOverflow /\ [][Next]_vars

\* A mission of one step, created when no or one other Mission instance has
\* been created with export and has not been propagated: the consumer of
\* that instance is running and counted in the package-level WaitGroup.
InitTwoMissions == InitMission(InitOrbit, {StepSize}, {FALSE}, {0, 1}) /\ NoCalc

TwoMissionSpec == InitTwoMissions /\ [][Next]_vars

\* No Mission is propagated: the state before NewMission of a mission
\* without export and without waypoints.
MissionIdle ==
    InitMission(InitOrbit, {0}, {FALSE}, {0}) /\ ~export /\ WayPoints = << >>

\* An OrbitTarget waypoint has just been built on a new control law; the
\* call record holds the law list given, the number of calls of Control,
\* the orbit of the first and of the last call, the thrust last returned and
\* the cleared flag of the waypoint.
InitControl ==
    /\ MissionIdle
    /\ \E method \in Methods, laws \in LawLists :
         /\ cl = NewOptimalDeltaOrbit(TargetOrbit, method, laws)
         /\ call = [laws |-> laws, n |-> 0, o |-> ZeroOrbit, first |-> ZeroOrbit,
                    thrust |-> << 0, 0, 0 >>, wpCleared |-> FALSE]
    /\ lambert = "none"
    /\ angles = "none"

ControlNext == ThrustDirection

ControlSpec == InitControl /\ [][ControlNext]_vars

\* Lambert has just been called.
InitLambert ==
    /\ MissionIdle
    /\ cl = "none"
    /\ call = "none"
    /\ \E dimI \in {2, 3}, dimF \in {2, 3}, dnu \in DeltaNus,
          ttype \in TransferTypes, dt \in TimesOfFlight :
         lambert = LambertCall(dimI, dimF, dnu, ttype, dt)
    /\ angles = "none"

LambertNext == LambertCheck \/ LambertIterate

\* Lambert runs on the thread of its caller, which goes on while it can.
LambertSpec == InitLambert /\ [][LambertNext]_vars /\ WF_vars(LambertNext)

\* anglesEqual is about to be called on two angles.
InitAngles ==
    /\ MissionIdle
    /\ cl = "none"
    /\ call = "none"
    /\ lambert = "none"
    /\ \E a \in AngleInputs, b \in AngleInputs :
         angles = [a |-> a, b |-> b, at |-> "called", ret |-> FALSE]

AnglesNext == AnglesEqualCall

AnglesSpec == InitAngles /\ [][AnglesNext]_vars

(* ------------------------------- claims -------------------------------- *)

\* Every snapshot that has left the propagator: still buffered or received.
Delivered == received \o histChan

\* The thread has left the integrator loop.
LoopExited == pc \in {"exit", "wait", "returned"}

\* An angle lies in [0, 2*pi).
InTurn(x) == 0 <= x /\ x < TwoPi

\* C1: once a stop signal has been delivered, at most one further SetState
\* is applied; the poll that finds the signal leaves the loop; the loop is
\* left only from a poll, never from inside a step.
C1_StopLatency ==
    [][ /\ hist'.sinceSignal <= 1
        /\ (pc = "poll" /\ stopChan > 0 /\ pc' # pc) => pc' = "exit"
        /\ (pc' = "exit" /\ pc # "exit") => pc = "poll" ]_vars

\* C1 witness: the signal arrived during a step, that step was completed by
\* its SetState, and the next poll stopped the run.
C1_Witness ==
    /\ hist.signalled
    /\ hist.sinceSignal = 1
    /\ hist.lastWhy = "signal"
    /\ LoopExited

\* C2 as stated: with EndDT <= StartDT (equality included) no poll stops on
\* elapsed time, and a poll without stop request returns true exactly when
\* every waypoint is cleared.
C2_OpenEndedWithEqual ==
    (EndDT <= StartDT /\ hist.polls > 0 /\ hist.lastWhy # "signal") =>
        /\ hist.lastWhy # "time"
        /\ hist.lastRet = hist.lastCleared

\* C2 amended: with EndDT < StartDT no poll stops on elapsed time, a poll
\* without stop request returns true exactly when every waypoint is cleared,
\* and with an empty waypoint list the first poll stops the run before any
\* step, the orbit unchanged.
C2_OpenEnded ==
    (EndDT < StartDT /\ hist.polls > 0 /\ hist.lastWhy # "signal") =>
        /\ hist.lastWhy # "time"
        /\ hist.lastRet = hist.lastCleared
        /\ WayPoints = << >> =>
              /\ hist.polls = 1
              /\ hist.lastRet
              /\ hist.nSetState = 0
              /\ Orbit = InitOrbit

\* C2 witness: an open-ended mission with a waypoint took a step and then
\* stopped at the poll that found the waypoint cleared.
C2_Witness ==
    /\ EndDT < StartDT
    /\ WayPoints # << >>
    /\ hist.nSetState > 0
    /\ hist.lastWhy = "waypoints"
    /\ hist.lastRet

\* C3: with EndDT > StartDT, a poll without stop request returns true
\* exactly when the advanced clock is after EndDT, no step starts once the
\* clock is after EndDT, and Propagate, once in the loop, ends (by
\* returning, or by the panic of a NaN derivative).
C3_TimeBounded ==
    /\ [](EndDT > StartDT =>
            /\ ~hist.lateStep
            /\ (hist.polls > 0 /\ hist.lastWhy # "signal") =>
                  (hist.lastRet <=> CurrentDT > EndDT))
    /\ ((pc = "poll" /\ EndDT > StartDT) ~> (pc \in {"returned", "panicked"}))

\* C3 witness: a time-bounded mission with an uncleared waypoint integrated
\* two steps, was stopped by the clock and returned.
C3_Witness ==
    /\ EndDT > StartDT
    /\ hist.nSetState = 2
    /\ hist.lastWhy = "time"
    /\ ~AllCleared(wpCleared)
    /\ pc = "returned"

\* C4: the export channel is closed at most once, exactly once when the loop
\* has been left and export is on, nothing is sent after the close or on a
\* closed channel, and without export nothing is sent or closed.
C4_ExportClosure ==
    /\ hist.closes <= 1
    /\ histClosed <=> hist.closes = 1
    /\ LoopExited => hist.closes = (IF export THEN 1 ELSE 0)
    /\ ~hist.badSend
    /\ histClosed => Len(hist.sent) = hist.sentAtClose
    /\ ~export => (hist.sent = << >> /\ histChan = << >> /\ hist.closes = 0)

\* C4 witness: an exporting mission sent snapshots from SetState, left the
\* loop on a stop request and returned with the channel closed.
C4_Witness ==
    /\ export
    /\ hist.lastWhy = "signal"
    /\ Len(hist.sent) >= 2
    /\ hist.closes = 1
    /\ pc = "returned"

\* C5 as stated: when Propagate has returned the consumer and the ticker
\* goroutine have finished, and the ticker logs nothing afterwards.
C5_JoinedShutdown ==
    pc = "returned" =>
        /\ cpc \in {"none", "done"}
        /\ tpc = "exited"
        /\ ~hist.lateLog

\* C6: the snapshots sent carry strictly increasing times, and the consumer
\* receives them in the order sent.
C6_EmissionOrder ==
    /\ \A j \in 1..(Len(hist.sent) - 1) : hist.sent[j].dt < hist.sent[j + 1].dt
    /\ Delivered = hist.sent

\* C6 witness: the consumer has received the first data point and the
\* snapshots of two steps.
C6_Witness ==
    /\ Len(received) >= 3
    /\ received[1].dt = StartDT
    /\ received[3].dt = StartDT + 2 * StepSize

C8_SnapshotIsolation ==
    \A k \in DOMAIN Delivered :
        ReadWayPoints(Delivered[k]) = Delivered[k].clearedAtSend

\* C9 as stated: the stored angles lie in [0, 2*pi).
C9_AngleRange ==
    /\ InTurn(Orbit.i)
    /\ InTurn(Orbit.Om)
    /\ InTurn(Orbit.om)
    /\ InTurn(Orbit.nu)

\* C10 as stated: after every SetState the stored eccentricity is |s[1]|.
C10_EccentricityIsAbs ==
    hist.nSetState > 0 => Orbit.e = Abs(hist.lastS.e)

\* C10 amended: the eccentricity is never negative, and after a SetState
\* that made no central-body transfer it is |s[1]|.
C10_Eccentricity ==
    /\ Orbit.e >= 0
    /\ (hist.nSetState > 0 /\ ~hist.rebuilt) => Orbit.e = Abs(hist.lastS.e)

\* C10 witness: the integrator produced a negative eccentricity and SetState
\* stored its magnitude.
C10_Witness ==
    /\ hist.nSetState > 0
    /\ ~hist.rebuilt
    /\ hist.lastS.e < 0
    /\ Orbit.e = -hist.lastS.e

\* The sum of the Runge-Kutta weights: what a constant unit rate adds to a
\* component over one step.
StepWeight == RK4Weight(1) + RK4Weight(2) + RK4Weight(3) + RK4Weight(4)

\* A step of the model is the SetState that ends an integration step.
IsSetState == pc = "setstate" /\ pc' = "poll"

\* A step of the model is one stage of Func.
IsFunc == pc = "func" /\ (stage' # stage \/ pc' # pc)

\* The elements a, e, i, Om, om and the central body of two orbits agree.
SameShape(o1, o2) ==
    /\ o1.a = o2.a
    /\ o1.e = o2.e
    /\ o1.i = o2.i
    /\ o1.Om = o2.Om
    /\ o1.om = o2.om
    /\ o1.Origin = o2.Origin

\* C11 as stated: a step without thrust and without J2 leaves a, e, i, Om,
\* om and the fuel mass unchanged and advances nu at the Kepler rate.
C11_CoastingFrameEveryStep ==
    [][ (IsSetState /\ ~includeJ2 /\ ~hist.stepThrust) =>
          /\ SameShape(Orbit', Orbit)
          /\ FuelMass' = FuelMass
          /\ Orbit'.nu = GoMod(Orbit.nu + StepWeight, TwoPi) ]_vars

\* C11 amended: a step without thrust and without J2 leaves the fuel mass
\* unchanged, and when its SetState makes no central-body transfer it leaves
\* a, e, i, Om, om unchanged and advances nu at the Kepler rate.
C11_CoastingFrame ==
    [][ (IsSetState /\ ~includeJ2 /\ ~hist.stepThrust) =>
          /\ FuelMass' = FuelMass
          /\ ~hist'.rebuilt =>
                /\ SameShape(Orbit', Orbit)
                /\ Orbit'.nu = GoMod(Orbit.nu + StepWeight, TwoPi)
                /\ Orbit'.nu # Orbit.nu ]_vars

\* C11 witness: a vehicle that only loiters, without J2, has completed a
\* step: the orbit is the initial one but for nu, the fuel is untouched.
C11_Witness ==
    /\ WayPoints = << Loiter >>
    /\ ~includeJ2
    /\ hist.nSetState = 1
    /\ SameShape(Orbit, InitOrbit)
    /\ Orbit.nu = GoMod(InitOrbit.nu + StepWeight, TwoPi)
    /\ FuelMass = InitFuel

\* A sanity check is on record: SetState has just been applied.
Checked == hist.chk.r >= 0

\* What a poll without stop request must return, whatever the flags.
DueToStop == IF EndDT < StartDT THEN hist.lastCleared ELSE CurrentDT > EndDT

\* C12: collided is false until the first SetState; a SetState sets it when
\* it was clear and |R| < R_body, keeps it while |R| <= 1.01 * R_body,
\* clears it when |R| > 1.01 * R_body, and leaves it clear otherwise; the
\* poll that follows a collision decides as without it.
C12_CollisionHysteresis ==
    /\ hist.nSetState = 0 => ~collided
    /\ Checked =>
         LET r     == hist.chk.r
             Rbody == hist.chk.body.Radius
         IN  /\ (~hist.chk.coll0 /\ r < Rbody) => collided
             /\ (~hist.chk.coll0 /\ r >= Rbody) => ~collided
             /\ (hist.chk.coll0 /\ r * 100 <= Rbody * 101) => collided
             /\ (hist.chk.coll0 /\ r * 100 > Rbody * 101) => ~collided
    /\ (collided /\ pc \in {"step", "exit"} /\ hist.lastWhy # "signal") =>
          hist.lastRet = DueToStop

\* C12 witness: the vehicle was below the surface after the first step, is
\* inside the dead zone after the second, and is still flagged.
C12_Witness ==
    /\ hist.nSetState = 2
    /\ hist.chk.coll0
    /\ hist.chk.r * 100 = hist.chk.body.Radius * 101
    /\ collided
    /\ pc = "poll"

\* C13 as stated: whenever the distance after a step exceeds the SOI of the
\* central body (a planet), that SetState transfers the orbit to the Sun.
C13_SoiExit ==
    (Checked /\ hist.chk.body.Name # "Sun" /\ hist.chk.r > hist.chk.body.SOI) =>
        /\ hist.chk.transfer
        /\ Orbit.Origin = Sun

\* C14 as stated: for an orbit about the Sun the test |R| > SOI is false,
\* and no SetState of a heliocentric orbit makes a central-body transfer.
C14_SunInfiniteSoi ==
    (Checked /\ hist.chk.body.Name = "Sun") =>
        /\ ~(hist.chk.r > hist.chk.body.SOI)
        /\ ~hist.chk.transfer

\* An entry of the queue holds an action.
NotNil(f) == f # "nil"

\* The actions waiting in the queue q, nil entries left out.
Pending(q) == SelectSeq(q, NotNil)

\* The thread is between two steps, or outside the integrator.
BetweenSteps == pc \in {"new", "idle", "poll", "step", "exit", "wait", "returned"}

\* C15: every action queued has been run exactly once and in the order
\* queued, or is still waiting; between steps nothing is waiting; Func runs
\* nothing and leaves the orbit alone; SetState runs what is waiting, in
\* order, and makes its sanity check on the orbit the actions left.
C15_DeferredActions ==
    /\ [](/\ hist.enqueued = hist.executed \o Pending(FuncQ)
          /\ BetweenSteps => Pending(FuncQ) = << >>)
    /\ [][ /\ pc = "func" => (hist'.executed = hist.executed /\ Orbit' = Orbit)
           /\ IsSetState =>
                /\ hist'.executed = hist.executed \o Pending(FuncQ)
                /\ (\E k \in DOMAIN FuncQ : FuncQ[k] = "REFFRAME") =>
                      hist'.chk.body = Sun ]_vars

\* C15 witness: two actions were queued in the second step, behind the nil
\* entries the first SetState left, and the second SetState ran both.
C15_Witness ==
    /\ hist.nSetState = 2
    /\ hist.executed = << "ADDCARGO", "REFFRAME" >>
    /\ Len(FuncQ) = Len(ClearedFuncQ)
    /\ Pending(FuncQ) = << >>
    /\ pc = "poll"

\* C16: the cursor never moves back; the cleared waypoints are exactly those
\* before the cursor; a waypoint is queried only when all before it are
\* cleared; the actions queued are those of the cleared waypoints, once each
\* and in list order; with the cursor past the end the vehicle coasts.
C16_WaypointSequencing ==
    /\ [](/\ cursor \in 1..(Len(WayPoints) + 1)
          /\ \A k \in DOMAIN WayPoints : wpCleared[k] <=> k < cursor
          /\ \A k \in hist.queried : \A j \in 1..(k - 1) : wpCleared[j]
          /\ hist.enqueued = ActionsOf(WayPoints, 1, cursor)
          /\ (cursor > Len(WayPoints) /\ hist.lastLaw # "none") =>
                hist.lastLaw = "coast")
    /\ [][ /\ cursor' >= cursor
           /\ (IsFunc /\ cursor > Len(WayPoints)) =>
                (acc'.a = acc.a /\ acc'.e = acc.e /\ acc'.i = acc.i
                   /\ acc'.fuel = acc.fuel) ]_vars

\* C16 witness: both waypoints of a list were cleared in order, their
\* actions queued in that order, and a later stage found the cursor past the
\* end and coasted.
C16_Witness ==
    /\ Len(WayPoints) = 2
    /\ cursor = 3
    /\ hist.enqueued = << "ADDCARGO", "REFFRAME" >>
    /\ hist.lastLaw = "coast"
    /\ pc = "func"

\* How often the action x has been queued.
TimesQueued(x) == Cardinality({k \in DOMAIN hist.enqueued : hist.enqueued[k] = x})

\* Waypoint k is queried by the stage of Func this step of the model is.
QueriedNow(k) == IsFunc /\ cursor <= k /\ k <= cursor'

\* The waypoints of the list that are of kind 'kind'.
OfKind(kind) == {k \in DOMAIN WayPoints : WayPoints[k].kind = kind}

\* C17: a Loiter is not cleared before its first query; its first query
\* records the time; a query at time t reports it cleared iff first-seen +
\* duration <= t; while it is the current waypoint the vehicle coasts; its
\* action is queued when it is reached and not before.
C17_Loiter ==
    /\ [](\A k \in OfKind("Loiter") :
            /\ wpSeen[k] < 0 => ~wpCleared[k]
            /\ wpCleared[k] => wpSeen[k] + WayPoints[k].duration <= CurrentDT
            /\ (cursor = k /\ hist.lastLaw # "none") => hist.lastLaw = "coast"
            /\ TimesQueued(WayPoints[k].action) = (IF wpCleared[k] THEN 1 ELSE 0))
    /\ [][ \A k \in OfKind("Loiter") :
             QueriedNow(k) =>
               /\ wpSeen'[k] = (IF wpSeen[k] < 0 THEN CurrentDT ELSE wpSeen[k])
               /\ wpCleared'[k] <=> (wpSeen'[k] + WayPoints[k].duration <= CurrentDT)
               /\ (cursor' = k) => (acc'.a = acc.a /\ acc'.e = acc.e
                                      /\ acc'.i = acc.i /\ acc'.fuel = acc.fuel) ]_vars

\* C17 witness: a Loiter first queried in the first step was reported
\* cleared by the query made exactly its duration later, and its action ran.
C17_Witness ==
    /\ 1 \in OfKind("Loiter")
    /\ wpCleared[1]
    /\ wpSeen[1] = StartDT + StepSize
    /\ CurrentDT = wpSeen[1] + WayPoints[1].duration
    /\ hist.executed = << WayPoints[1].action >>

\* The vehicle can thrust: it has fuel and a thruster it can power.
CanThrust == FuelMass > 0 /\ thrusters > 0

C19_FuelMonotone ==
    [][ /\ FuelMass' <= FuelMass
        /\ FuelMass' < FuelMass => (IsSetState /\ hist.stepThrust)
        /\ (IsFunc /\ hist'.lastLaw = "coast") => acc'.fuel = acc.fuel
        /\ (IsFunc /\ hist'.lastLaw # "coast" /\ pc' # "panicked") =>
              acc'.fuel < acc.fuel ]_vars

\* C19 witness: a step with thrust has lowered the fuel mass.
C19_Witness ==
    /\ hist.nSetState = 1
    /\ FuelMass < InitFuel
    /\ pc = "poll"

\* The current waypoint asks for thrust.
WantsThrust == cursor <= Len(WayPoints) /\ WayPoints[cursor].law # "coast"

\* C20: a stage of Func gets zero thrust and zero mass flow when the
\* waypoint asks for none, when the fuel mass is <= 0, or when no thruster
\* can be powered; with a fuel mass <= 0 recorded no step thrusts and the
\* fuel mass stays; the poll that follows decides as with fuel.
C20_FuelExhaustion ==
    /\ [](/\ FuelMass <= 0 => ~hist.stepThrust
          /\ (FuelMass <= 0 /\ pc \in {"step", "exit"} /\ hist.lastWhy # "signal") =>
                hist.lastRet = DueToStop)
    /\ [][ /\ (IsFunc /\ (FuelMass <= 0 \/ thrusters = 0 \/ ~WantsThrust')) =>
                /\ hist'.lastLaw = "coast"
                /\ acc'.a = acc.a /\ acc'.e = acc.e /\ acc'.i = acc.i
                /\ acc'.fuel = acc.fuel
           /\ FuelMass <= 0 => FuelMass' = FuelMass ]_vars

\* C20 witness: the fuel mass crossed zero in the first step; the second
\* step was integrated without thrust although the waypoint asks for some.
C20_Witness ==
    /\ hist.nSetState = 2
    /\ FuelMass <= 0
    /\ FuelMass = InitFuel - StepWeight
    /\ thrusters > 0
    /\ WantsThrust
    /\ pc = "poll"

\* C21 (as stated): whenever a component of the derivative vector computed
\* by Func is NaN, +Inf or -Inf, the run is aborted in that call of Func, so
\* that no SetState applies the step to the orbit and the fuel.
C21_NonFiniteAbort == hist.nonFinite => pc = "panicked"

\* The law l is one that, by the rule of the method, contributes to the sum
\* for the osculating orbit o: under Ruggerio its weight
\* (target - osculating) / |target - initial| is not zero, the weight being
\* zero when the initial or the osculating element is within tolerance of
\* the target; under Naasz the error is not below the tolerance.
Contributes(l, o) ==
    LET x == Elem(o, l)  x0 == Elem(cl.oInit, l)  xT == Elem(cl.oTgt, l)
    IN  IF cl.method = "Ruggerio"
          THEN Abs(x0 - xT) > Tol(l) /\ Abs(x - xT) > Tol(l) /\ xT # x
          ELSE Abs(x - xT) >= Tol(l)

\* C22: after every call of Control but the first, the cleared flag is true
\* exactly when no law of the control contributed in that call; when it is
\* true the thrust returned is the zero vector; and the OrbitTarget waypoint
\* reports cleared exactly when its law does.
C22_Clearance ==
    call.n >= 2 =>
      /\ cl.cleared <=> \A k \in DOMAIN cl.controls : ~Contributes(cl.controls[k], call.o)
      /\ cl.cleared => call.thrust = << 0, 0, 0 >>
      /\ call.wpCleared <=> cl.cleared

\* C22 witness: a control with two laws is cleared by a call after the
\* first, and its waypoint reports cleared.
C22_Witness ==
    /\ call.n >= 2
    /\ Len(cl.controls) = 2
    /\ cl.cleared
    /\ call.wpCleared

\* C23 (as stated): the first call of Control records its orbit as the
\* initial orbit and returns zero thrust, later calls leave the initial
\* orbit alone, a law list given by the caller is kept as given, and the
\* default list is reduced to the laws whose initial error is above
\* tolerance.
C23_Initialisation ==
    call.n >= 1 =>
      /\ cl.Initd
      /\ cl.oInit = call.first
      /\ call.n = 1 => call.thrust = << 0, 0, 0 >>
      /\ call.laws # << >> => cl.controls = call.laws
      /\ call.laws = << >> => cl.controls = Rebuilt(call.first, cl.oTgt)

\* The J2 terms are in force: the mission was created with J2 and the
\* central body has a J2 above zero.
J2Active == includeJ2 /\ Orbit.Origin.J2 > 0

\* A stage of Func adds to the weighted sum, for the rates the J2 terms are not
\* added to, what it adds for the same thrust law without the J2 terms.
RatesAsWithoutJ2 ==
    LET d == FDot(hist'.lastLaw, FALSE)
        w == RK4Weight(stage)
    IN  /\ acc'.a = acc.a + w * d.a
        /\ acc'.e = acc.e + w * d.e
        /\ acc'.i = acc.i + w * d.i
        /\ acc'.nu = acc.nu + w * d.nu
        /\ acc'.fuel = acc.fuel + w * d.fuel
        /\ ~J2Active => /\ acc'.Om = acc.Om + w * d.Om
                        /\ acc'.om = acc.om + w * d.om

\* C24 as stated: the J2 terms are added only with J2 enabled about a body
\* whose J2 is above zero and only to the rates of Om and om; every step
\* without thrust leaves a, e, i and the fuel mass unchanged, and Om and om
\* as well when J2 is disabled.
C24_J2FrameEveryStep ==
    [][ /\ (IsFunc /\ pc' # "panicked") => RatesAsWithoutJ2
        /\ (IsSetState /\ ~hist.stepThrust) =>
              /\ Orbit'.a = Orbit.a /\ Orbit'.e = Orbit.e /\ Orbit'.i = Orbit.i
              /\ FuelMass' = FuelMass
              /\ ~includeJ2 => Orbit'.Om = Orbit.Om /\ Orbit'.om = Orbit.om ]_vars

\* C24 amended: the J2 terms are added only with J2 enabled about a body
\* whose J2 is above zero and only to the rates of Om and om; a step
\* without thrust leaves the fuel mass unchanged, and when its SetState
\* makes no central-body transfer it leaves a, e and i unchanged, and Om and
\* om as well when the J2 terms are not in force.
C24_J2Frame ==
    [][ /\ (IsFunc /\ pc' # "panicked") => RatesAsWithoutJ2
        /\ (IsSetState /\ ~hist.stepThrust) =>
              /\ FuelMass' = FuelMass
              /\ ~hist'.rebuilt =>
                    /\ Orbit'.a = Orbit.a /\ Orbit'.e = Orbit.e /\ Orbit'.i = Orbit.i
                    /\ ~J2Active => Orbit'.Om = Orbit.Om /\ Orbit'.om = Orbit.om ]_vars

\* C24 witness: a vehicle that only loiters, with J2 about Earth, has
\* completed a step: a, e, i and the fuel are the initial ones, Om is not.
C24_Witness ==
    /\ WayPoints = << Loiter >>
    /\ includeJ2
    /\ Orbit.Origin = Earth
    /\ hist.nSetState = 1
    /\ Orbit.a = InitOrbit.a /\ Orbit.e = InitOrbit.e /\ Orbit.i = InitOrbit.i
    /\ Orbit.Om # InitOrbit.Om
    /\ FuelMass = InitFuel

\* C25: Lambert returns, after at most MaxIter iterations on ψ; with an
\* input that is not a 3-vector it returns DimensionMismatch and no
\* velocities, with collinear 3-vectors Degenerate, at the cap without
\* convergence NonConvergent, and a nil error only with the time of flight
\* at ψ within the tolerance.
C25_LambertOutcomes ==
    /\ <>(lambert.at = "returned")
    /\ [](lambert.iter <= MaxIter)
    /\ [](lambert.at = "returned" =>
           /\ (lambert.dimI # 3 \/ lambert.dimF # 3) =>
                 lambert.err = "DimensionMismatch" /\ lambert.V = "none"
           /\ (lambert.dimI = 3 /\ lambert.dimF = 3 /\ lambert.dnu \in {"zero", "pi"}) =>
                 lambert.err = "Degenerate"
           /\ lambert.err = "NonConvergent" =>
                 lambert.iter = MaxIter
                   /\ Abs(TimeOfFlight(lambert.psi) - lambert.dt) >= LambertEps
           /\ lambert.err = "nil" =>
                 Abs(TimeOfFlight(lambert.psi) - lambert.dt) < LambertEps)

\* C25 witness: a call on 3-vectors that are not collinear has returned
\* NonConvergent at the cap.
C25_Witness ==
    /\ lambert.at = "returned"
    /\ lambert.dimI = 3 /\ lambert.dimF = 3
    /\ lambert.err = "NonConvergent"
    /\ lambert.iter = MaxIter

\* The time the integration steps applied so far account for.
Integrated == hist.nSetState * StepSize

\* C26 as stated: when the integrator loop has ended, by a stop request, by
\* the end date or by the waypoints, CurrentDT - StartDT is the number of
\* steps applied times the step size.
C26_ClockAgreesAtEnd == LoopExited => CurrentDT - StartDT = Integrated

\* C26 amended: when the loop has ended by a stop request, CurrentDT -
\* StartDT is the number of steps applied times the step size; when it has
\* ended by the end date or by the waypoints it is one step size more; and
\* at no time is the clock behind the steps applied or more than one step
\* ahead of them.
C26_ClockAtEnd ==
    /\ pc # "new" => CurrentDT - StartDT \in {Integrated, Integrated + StepSize}
    /\ LoopExited =>
          CurrentDT - StartDT =
            IF hist.lastWhy = "signal" THEN Integrated ELSE Integrated + StepSize

\* C26 witness: a mission of two steps has ended by its end date with the
\* clock at three steps.
C26_Witness ==
    /\ LoopExited
    /\ hist.lastWhy = "time"
    /\ hist.nSetState = 2
    /\ CurrentDT - StartDT = 3 * StepSize

\* The orbit and the fuel mass a snapshot carries.
Carried(snap) == << snap.orbit, snap.fuel >>

\* C27 (as stated): every snapshot sent pairs the time StartDT + k * StepSize
\* with the orbit and the fuel mass after exactly k steps; snapshots with
\* different times carry different states; and once the channel is closed
\* the last snapshot sent carries the state the last step produced.
C27_SnapshotCoherence ==
    /\ [][ hist'.sent # hist.sent =>
             LET snap == hist'.sent[Len(hist'.sent)] IN
               /\ snap.dt = StartDT + hist'.nSetState * StepSize
               /\ Carried(snap) = << Orbit', FuelMass' >> ]_vars
    /\ [](\A m, n \in DOMAIN hist.sent :
            hist.sent[m].dt # hist.sent[n].dt =>
              Carried(hist.sent[m]) # Carried(hist.sent[n]))
    /\ []((histClosed /\ hist.nSetState > 0 /\ pc # "panicked") =>
            Carried(hist.sent[Len(hist.sent)]) = << Orbit, FuelMass >>)

\* C28 (as stated): once its own integration has stopped and its own export
\* consumer has finished (or it has none), Propagate is not kept waiting:
\* the WaitGroup it waits on is at zero.
C28_MissionIndependence == (pc = "wait" /\ cpc # "running") => wg = 0

\* No Stop poll is under way or to come unless Propagate is called: the
\* mission is before or after its propagation.
NotPropagating == pc = "idle" \/ LoopExited

\* C29 (as stated): a call of StopPropagation can always complete, the stop
\* channel having room for its request whenever the mission is not
\* propagating; and a request made before Propagate is not what stops the
\* propagation at its first poll.
C29_StopNonBlockingScoped ==
    /\ [](NotPropagating => stopChan < 1)
    /\ []((pc = "idle" /\ stopChan > 0) =>
            [](hist.polls = 1 => hist.lastWhy # "signal"))

\* The circular distance of two angles: the smallest |a - b + 2πk| over the
\* whole turns k that matter for the angles compared.
CircularDistance(a, b) ==
    LET turn == HalfUnits * TwoPi
        ds   == { Abs(a - b + turn * k) : k \in -4..4 }
    IN  CHOOSE d \in ds : \A x \in ds : d <= x

\* C30 (as stated): anglesEqual(a, b) is true exactly when the circular
\* distance of a and b is below angleε, and anglesEqual(b, a) is the same.
C30_AnglesEqualModulo ==
    angles.at = "returned" =>
      /\ angles.ret <=> CircularDistance(angles.a, angles.b) < HalfUnits * angleEps
      /\ angles.ret <=> anglesEqual(angles.b, angles.a)

====
